---- MODULE Spec2Model ----
(***************************************************************************)
(* Model of the Planarizer operator (mesh_planarizer.py).                  *)
(*                                                                         *)
(* Arithmetic is exact: a vector is <<x, y, z, d>> standing for            *)
(* (x/d, y/d, z/d) in lowest terms, a scalar is <<n, d>>.  A normalized    *)
(* vector is kept as [dir, len2], standing for dir / sqrt(len2), so that   *)
(* normalize() is a real conversion and  plane * plane.dot(p)  is the      *)
(* rational vector dir * (dir . p) / len2.                                 *)
(***************************************************************************)
EXTENDS Integers, Sequences, FiniteSets

\* ------------------------------------------------------------- bounds ----
MaxHeight == 1      \* a vertex is lifted off the base plane by 0..MaxHeight
MaxCursor == 1      \* the cursor is placed at x = 0, 2, .., 2 * MaxCursor (world)
MaxShift  == 1      \* the object's origin is shifted by 0..MaxShift steps
MaxSelected == 2    \* at most MaxSelected vertices are selected

\* ----------------------------------------------------- exact arithmetic --
Abs(n) == IF n < 0 THEN -n ELSE n

RECURSIVE GCD(_, _)
GCD(a, b) == IF b = 0 THEN a ELSE GCD(b, a % b)

Rat(n, d) ==
    LET s == IF d < 0 THEN -1 ELSE 1
        g == GCD(Abs(n), Abs(d))
    IN  <<(s * n) \div g, (s * d) \div g>>

RLess(a, b) == a[1] * b[2] < b[1] * a[2]

Vec(x, y, z, d) ==
    LET s == IF d < 0 THEN -1 ELSE 1
        g == GCD(GCD(Abs(x), Abs(y)), GCD(Abs(z), Abs(d)))
    IN  <<(s * x) \div g, (s * y) \div g, (s * z) \div g, (s * d) \div g>>

ZeroVec == <<0, 0, 0, 1>>

VAdd(a, b) == Vec(a[1] * b[4] + b[1] * a[4], a[2] * b[4] + b[2] * a[4],
                  a[3] * b[4] + b[3] * a[4], a[4] * b[4])

VSub(a, b) == Vec(a[1] * b[4] - b[1] * a[4], a[2] * b[4] - b[2] * a[4],
                  a[3] * b[4] - b[3] * a[4], a[4] * b[4])

VScale(a, r) == Vec(a[1] * r[1], a[2] * r[1], a[3] * r[1], a[4] * r[2])

Dot(a, b) == Rat(a[1] * b[1] + a[2] * b[2] + a[3] * b[3], a[4] * b[4])

Cross(a, b) == Vec(a[2] * b[3] - a[3] * b[2], a[3] * b[1] - a[1] * b[3],
                   a[1] * b[2] - a[2] * b[1], a[4] * b[4])

\* (a - b).length compared through its square (sqrt is monotone)
Length2(a) == Dot(a, a)

\* Vector.normalize(): the zero vector stays zero, any other vector v
\* becomes v / |v|, kept as the primitive integer direction and its
\* squared length
Normalize(v) ==
    LET g == GCD(GCD(Abs(v[1]), Abs(v[2])), Abs(v[3]))
    IN  IF g = 0 THEN [dir |-> <<0, 0, 0>>, len2 |-> 1]
        ELSE LET x == v[1] \div g
                 y == v[2] \div g
                 z == v[3] \div g
             IN  [dir |-> <<x, y, z>>, len2 |-> x * x + y * y + z * z]

ZeroNormal == [dir |-> <<0, 0, 0>>, len2 |-> 1]

DirVec(n) == <<n.dir[1], n.dir[2], n.dir[3], 1>>

\* n.dot(p) without the factor 1/sqrt(len2)
DirDot(n, p) == Dot(DirVec(n), p)

\* plane * plane.dot(point)
TimesDot(plane, point) ==
    LET k == DirDot(plane, point)
    IN  VScale(DirVec(plane), Rat(k[1], k[2] * plane.len2))

\* ----------------------------------------------------------- the mesh ----
NumVerts == 6

\* Two quads sharing the edge 2-5:      4---5---6
\*                                      |   |   |
\*                                      1---2---3
Strip ==
    [faces |-> << <<1, 2, 5, 4>>, <<2, 3, 6, 5>> >>,
     edges |-> << <<1, 2>>, <<2, 5>>, <<5, 4>>, <<4, 1>>,
                  <<2, 3>>, <<3, 6>>, <<6, 5>> >>,
     base  |-> << <<0, 0>>, <<1, 0>>, <<2, 0>>, <<0, 1>>, <<1, 1>>, <<2, 1>> >>]

\* A pentagon 1-2-3-4-5 with a triangle 1-6-2 on its first edge
PentaTri ==
    [faces |-> << <<1, 2, 3, 4, 5>>, <<1, 6, 2>> >>,
     edges |-> << <<1, 2>>, <<2, 3>>, <<3, 4>>, <<4, 5>>, <<5, 1>>,
                  <<1, 6>>, <<6, 2>> >>,
     base  |-> << <<0, 0>>, <<2, 0>>, <<3, 2>>, <<1, 3>>, <<-1, 2>>, <<1, -1>> >>]

\* A quad 1-2-3-4 and a loose edge 5-6
QuadWire ==
    [faces |-> << <<1, 2, 3, 4>> >>,
     edges |-> << <<1, 2>>, <<2, 3>>, <<3, 4>>, <<4, 1>>, <<5, 6>> >>,
     base  |-> << <<0, 0>>, <<1, 0>>, <<1, 1>>, <<0, 1>>, <<2, 0>>, <<2, 1>> >>]

Meshes == {Strip, PentaTri, QuadWire}

VARIABLES
    bm,               \* [faces, edges]: the topology of the edit mesh
    co,               \* co[v]: position of vertex v (mesh-local)
    select,           \* select[v]: the selected flag of vertex v
    normal,           \* normal[f]: the stored normal of face f
    cursor_location,  \* the 3D cursor (world space)
    matrix_world,     \* the active object's world matrix
    plane_source,     \* operator property
    plane_anchor,     \* operator property
    iteration_mode,   \* operator property
    result,           \* "NONE" before the call, then what execute returned
    reported,         \* TRUE when execute reported an error to the user
    pre,              \* the mesh and the properties as they were at the call
    log               \* one record per getPlane/getAnchor pair of the call

vars == <<bm, co, select, normal, cursor_location, matrix_world, plane_source,
          plane_anchor, iteration_mode, result, reported, pre, log>>

Verts == 1 .. NumVerts

Indices(n) == [i \in 1 .. n |-> i]

Contains(seq, x) == \E i \in 1 .. Len(seq) : seq[i] = x

\* ------------------------------------------------------ world matrix -----
\* matrix_world is kept as a uniform scale and a translation
Apply(m, p) == VAdd(VScale(p, m.scale), m.loc)

Inverted(m) ==
    [scale |-> Rat(m.scale[2], m.scale[1]),
     loc   |-> VScale(m.loc, Rat(-m.scale[2], m.scale[1]))]

\* -------------------------------------------------- topology queries -----
link_edges(v) == SelectSeq(bm.edges, LAMBDA e : e[1] = v \/ e[2] = v)

link_faces(v) ==
    SelectSeq(Indices(Len(bm.faces)), LAMBDA f : Contains(bm.faces[f], v))

EdgeBetween(a, b) ==
    CHOOSE e \in 1 .. Len(bm.edges) : {bm.edges[e][1], bm.edges[e][2]} = {a, b}

\* face.edges: edge i joins face.verts[i] and its successor
face_edges_of(f) ==
    LET fv == bm.faces[f]
        n  == Len(fv)
    IN  [i \in 1 .. n |-> EdgeBetween(fv[i], fv[(i % n) + 1])]

RECURSIVE VSum(_)
VSum(vs) == IF vs = <<>> THEN ZeroVec ELSE VAdd(Head(vs), VSum(Tail(vs)))

calc_center_median(f, pos) ==
    LET fv == bm.faces[f]
    IN  VScale(VSum([i \in 1 .. Len(fv) |-> pos[fv[i]]]), Rat(1, Len(fv)))

\* BMFace normal as the host computes it (Newell's method)
NewellNormal(fv, pos) ==
    LET n == Len(fv)
    IN  Normalize(VSum([i \in 1 .. n |-> Cross(pos[fv[i]], pos[fv[(i % n) + 1]])]))

\* ---------------------------------------------------- module functions ---
convert_vectors_to_plane(va, vb, vc) ==
    LET vect_a == VSub(vb, va)
        vect_b == VSub(vb, vc)
    IN  Normalize(Cross(vect_a, vect_b))

\* mutants: the projection added instead of subtracted; the anchor left
\* out of the distance
project_adds(vert_co, anchor, plane) ==
    LET point == VSub(vert_co, anchor)
    IN  VAdd(vert_co, TimesDot(plane, point))

project_ignores_anchor(vert_co, anchor, plane) ==
    VSub(vert_co, TimesDot(plane, vert_co))

project_vertex_onto_plane(vert_co, anchor, plane) ==
    LET point == VSub(vert_co, anchor)
    IN  VSub(vert_co, TimesDot(plane, point))

\* returns 0 where the code raises (min_dist is still False)
RECURSIVE ClosestFrom(_, _, _, _)
ClosestFrom(faces, point, pos, best) ==
    IF faces = <<>> THEN best
    ELSE LET face == Head(faces)
             dist == Length2(VSub(calc_center_median(face, pos), point))
             take == \/ best = 0
                     \/ RLess(dist, Length2(VSub(calc_center_median(best, pos), point)))
         IN  ClosestFrom(Tail(faces), point, pos, IF take THEN face ELSE best)

get_face_closest_to_point(faces, point, pos) == ClosestFrom(faces, point, pos, 0)

\* list.sort is stable: v goes after every element whose key is <= its own
RECURSIVE InsertByDistance(_, _, _, _)
InsertByDistance(sorted, v, point, pos) ==
    IF sorted = <<>> THEN <<v>>
    ELSE IF RLess(Length2(VSub(pos[v], point)), Length2(VSub(pos[Head(sorted)], point)))
         THEN <<v>> \o sorted
         ELSE <<Head(sorted)>> \o InsertByDistance(Tail(sorted), v, point, pos)

RECURSIVE SortFrom(_, _, _, _)
SortFrom(verts, point, pos, acc) ==
    IF verts = <<>> THEN acc
    ELSE SortFrom(Tail(verts), point, pos, InsertByDistance(acc, Head(verts), point, pos))

\* mutant: sorted with reverse=True
sort_descending(verts, point, pos) ==
    LET up == SortFrom(verts, point, pos, <<>>)
    IN  [i \in 1 .. Len(up) |-> up[Len(up) + 1 - i]]

sort_verts_distance_from_point(verts, point, pos) == SortFrom(verts, point, pos, <<>>)

\* ------------------------------------------------- operator methods ------
\* Values a method hands back: tag "ok" with the value, "None", or "raise"
PlaneOk(n, f) == [tag |-> "ok", val |-> n, face |-> f]
PlaneRaise    == [tag |-> "raise", val |-> ZeroNormal, face |-> 0]
AnchorOk(p, f) == [tag |-> "ok", val |-> p, face |-> f]
AnchorNone    == [tag |-> "None", val |-> ZeroVec, face |-> 0]
AnchorRaise   == [tag |-> "raise", val |-> ZeroVec, face |-> 0]
AnchorSkipped == [tag |-> "skipped", val |-> ZeroVec, face |-> 0]

RECURSIVE AppendNew(_, _)
AppendNew(faces, more) ==
    IF more = <<>> THEN faces
    ELSE AppendNew(IF Contains(faces, Head(more)) THEN faces
                   ELSE Append(faces, Head(more)), Tail(more))

RECURSIVE ConnectedFaces(_, _)
ConnectedFaces(selected_verts, faces) ==
    IF selected_verts = <<>> THEN faces
    ELSE ConnectedFaces(Tail(selected_verts),
             AppendNew(faces, SelectSeq(link_faces(Head(selected_verts)),
                                        LAMBDA f : Len(bm.faces[f]) > 3)))

getFaces(selected_verts, connected) ==
    IF connected THEN ConnectedFaces(selected_verts, <<>>)
    ELSE Indices(Len(bm.faces))

InEdge(v, e) == bm.edges[e][1] = v \/ bm.edges[e][2] = v

DiagonalNone  == [tag |-> "None", verts |-> <<0, 0, 0>>,
                  vects |-> <<ZeroVec, ZeroVec, ZeroVec>>]
DiagonalRaise == [tag |-> "raise", verts |-> <<0, 0, 0>>,
                  vects |-> <<ZeroVec, ZeroVec, ZeroVec>>]

\* lines 296-312: the other vertex of each edge, then the result
DiagonalResult(other_verts, middle_vert, pos) ==
    IF Len(other_verts) < 2 \/ middle_vert = 0 THEN DiagonalNone
    ELSE [tag |-> "ok",
          verts |-> <<other_verts[1], middle_vert, other_verts[2]>>,
          vects |-> <<pos[other_verts[1]], pos[middle_vert], pos[other_verts[2]]>>]

OtherVerts(face_edges, middle_vert) ==
    [i \in 1 .. Len(face_edges) |->
        Head(SelectSeq(bm.edges[face_edges[i]], LAMBDA v : v # middle_vert))]

\* lines 288-294: the first vertex of face_verts on both of the first two
\* edges (0: None)
MiddleVert(face_verts, face_edges) ==
    LET shared == SelectSeq(face_verts,
                      LAMBDA v : InEdge(v, face_edges[1]) /\ InEdge(v, face_edges[2]))
    IN  IF shared = <<>> THEN 0 ELSE Head(shared)

\* face_edges[1] raises IndexError on a face with fewer than two edges
\* away from vert
DiagonalFrom(face_edges, face_verts, pos) ==
    IF Len(face_edges) < 2 THEN DiagonalRaise
    ELSE DiagonalResult(OtherVerts(face_edges, MiddleVert(face_verts, face_edges)),
                        MiddleVert(face_verts, face_edges), pos)

\* lines 281-286: the unselected vertices of the face, or all but vert
FaceVerts(vert, face) ==
    LET unselected == SelectSeq(face, LAMBDA v : ~select[v])
    IN  IF Len(unselected) < 3 THEN SelectSeq(face, LAMBDA v : v # vert)
        ELSE unselected

\* [tag |-> "None"], or [tag |-> "ok"] with the vertices (a, middle, c)
getVectFromDiagonal(vert, f, pos) ==
    DiagonalFrom(SelectSeq(face_edges_of(f), LAMBDA e : ~InEdge(vert, e)),
                 FaceVerts(vert, bm.faces[f]), pos)

\* only the TypeError of unpacking None is caught
PlaneOfDiagonal(d, f) ==
    IF d.tag = "ok"
    THEN PlaneOk(convert_vectors_to_plane(d.vects[1], d.vects[2], d.vects[3]), f)
    ELSE IF d.tag = "None" THEN PlaneOk(normal[f], f)
    ELSE PlaneRaise

getPlaneFromDiagonal(vert, f, pos) ==
    PlaneOfDiagonal(getVectFromDiagonal(vert, f, pos), f)

\* lines 204-207, face = 0 where get_face_closest_to_point raised
PlaneOfFace(selected_verts, pos, face) ==
    IF face = 0 THEN PlaneRaise
    ELSE IF Len(selected_verts) > 1 THEN PlaneOk(normal[face], face)
    ELSE getPlaneFromDiagonal(selected_verts[1], face, pos)

getPlaneFromCursor(selected_verts, pos, connected) ==
    PlaneOfFace(selected_verts, pos,
        get_face_closest_to_point(getFaces(selected_verts, connected),
            Apply(Inverted(matrix_world), cursor_location), pos))

getPlaneFromCursorConnected(selected_verts, pos) ==
    getPlaneFromCursor(selected_verts, pos, TRUE)

\* the square-free part of n, and the root of the rest
RECURSIVE SquareFree(_, _)
SquareFree(n, q) ==
    IF q * q > n THEN n
    ELSE IF n % (q * q) = 0 THEN SquareFree(n \div (q * q), q)
    ELSE SquareFree(n, q + 1)

Kernel(n) == SquareFree(n, 2)

Root(n) == CHOOSE q \in 1 .. n : q * q = n

\* normals whose sum is again dir / sqrt(len2): all of one kernel
Commensurable(normals) ==
    \A i, j \in 1 .. Len(normals) :
        \/ normals[i].dir = <<0, 0, 0>>
        \/ normals[j].dir = <<0, 0, 0>>
        \/ Kernel(normals[i].len2) = Kernel(normals[j].len2)

\* n / sqrt(len2) = (n / Root(len2 / k)) / sqrt(k)
OverRoot(n) ==
    LET q == Root(n.len2 \div Kernel(n.len2))
    IN  <<n.dir[1], n.dir[2], n.dir[3], q>>

\* lines 215-220; 1.0 / len(faces) raises ZeroDivisionError on no face
AverageOfFaces(faces) ==
    IF faces = <<>> THEN PlaneRaise
    ELSE PlaneOk(Normalize(VSum([i \in 1 .. Len(faces) |->
                     VScale(OverRoot(normal[faces[i]]), Rat(1, Len(faces)))])), 0)

getPlaneFromAverage(selected_verts, pos) ==
    AverageOfFaces(getFaces(selected_verts, TRUE))

getPlane(selected_verts, pos, key) ==
    CASE key = "cursor"    -> getPlaneFromCursor(selected_verts, pos, FALSE)
      [] key = "average"   -> getPlaneFromAverage(selected_verts, pos)
      [] key = "connected" -> getPlaneFromCursorConnected(selected_verts, pos)

getAnchorCursor(selected_verts, pos) ==
    AnchorOk(Apply(Inverted(matrix_world), cursor_location), 0)

getAnchorAverage(selected_verts, pos) ==
    AnchorOk(VSum([i \in 1 .. Len(selected_verts) |->
                     VScale(pos[selected_verts[i]],
                            Rat(1, Len(selected_verts)))]), 0)

\* the inner loops have no break: the last unselected endpoint wins
RECURSIVE LastUnselected(_, _, _)
LastUnselected(edge_verts, selected_verts, ref_vert) ==
    IF edge_verts = <<>> THEN ref_vert
    ELSE LastUnselected(Tail(edge_verts), selected_verts,
                        IF ~Contains(selected_verts, Head(edge_verts))
                        THEN Head(edge_verts)
                        ELSE ref_vert)

RECURSIVE EndpointsOf(_)
EndpointsOf(edges) ==
    IF edges = <<>> THEN <<>> ELSE Head(edges) \o EndpointsOf(Tail(edges))

RECURSIVE RefVertFrom(_, _)
RECURSIVE RefVertOr(_, _, _)
RefVertOr(ref_vert, rest, selected_verts) ==
    IF ref_vert # 0 THEN ref_vert ELSE RefVertFrom(rest, selected_verts)

RefVertFrom(rest, selected_verts) ==
    IF rest = <<>> THEN 0
    ELSE RefVertOr(LastUnselected(EndpointsOf(link_edges(Head(rest))),
                                  selected_verts, 0),
                   Tail(rest), selected_verts)

RefVert(selected_verts) == RefVertFrom(selected_verts, selected_verts)

\* line 246: getVectFromDiagonal(...)[1], which raises on None
MiddleOfDiagonal(d, face) ==
    IF d.tag = "ok" THEN AnchorOk(d.vects[2], face) ELSE AnchorRaise

AnchorOfFace(vert, pos, face) ==
    IF face = 0 THEN AnchorRaise
    ELSE MiddleOfDiagonal(getVectFromDiagonal(vert, face, pos), face)

\* lines 256-260: the position of ref_vert, or None
AnchorOfRefVert(ref_vert, pos) ==
    IF ref_vert = 0 THEN AnchorNone ELSE AnchorOk(pos[ref_vert], 0)

\* the cursor of line 242 is used as it is, in world coordinates
getAnchorConnected(selected_verts, pos) ==
    IF Len(selected_verts) = 1
    THEN AnchorOfFace(selected_verts[1], pos,
             get_face_closest_to_point(getFaces(selected_verts, TRUE),
                                       cursor_location, pos))
    ELSE AnchorOfRefVert(RefVert(selected_verts), pos)

getAnchor(selected_verts, pos, key) ==
    CASE key = "cursor"    -> getAnchorCursor(selected_verts, pos)
      [] key = "average"   -> getAnchorAverage(selected_verts, pos)
      [] key = "connected" -> getAnchorConnected(selected_verts, pos)

\* --------------------------------------------------------- execute -------
PlaneSources   == {"average", "cursor", "connected"}
PlaneAnchors   == {"average", "cursor", "connected"}
IterationModes == {"grouped", "individual"}

\* [v for v in bm.verts if v.select]
SelectedVerts == SelectSeq(Indices(NumVerts), LAMBDA v : select[v])

\* mutant: the override taken in individual mode only
OverriddenInIndividualOnly(num_verts, mode, configured) ==
    IF mode = "individual" THEN "connected" ELSE configured

\* lines 125-127: the strategy in force after the override
Overridden(num_verts, mode, configured) ==
    IF num_verts = 1 \/ mode = "individual" THEN "connected" ELSE configured

Entry(verts, pkey, akey, plane, anchor, moved) ==
    [verts |-> verts, plane_key |-> pkey, anchor_key |-> akey,
     plane |-> plane, anchor |-> anchor, moved |-> moved]

\* mutant: every vertex of the mesh is projected
ProjectedAll(verts, pos, pkey, akey, plane, anchor) ==
    [pos   |-> IF plane.tag = "ok" /\ anchor.tag = "ok"
               THEN [v \in Verts |->
                       project_vertex_onto_plane(pos[v], anchor.val, plane.val)]
               ELSE pos,
     entry |-> Entry(verts, pkey, akey, plane, anchor,
                     plane.tag = "ok" /\ anchor.tag = "ok")]

\* lines 136-139 / 148-149: the vertices of verts are projected; the
\* projection raises on an anchor of None (Vector - None)
Projected(verts, pos, pkey, akey, plane, anchor) ==
    [pos   |-> IF plane.tag = "ok" /\ anchor.tag = "ok"
               THEN [v \in Verts |->
                       IF Contains(verts, v)
                       THEN project_vertex_onto_plane(pos[v], anchor.val, plane.val)
                       ELSE pos[v]]
               ELSE pos,
     entry |-> Entry(verts, pkey, akey, plane, anchor,
                     plane.tag = "ok" /\ anchor.tag = "ok")]

\* getAnchor is reached only when getPlane returned
WithAnchor(verts, pos, pkey, akey, plane) ==
    Projected(verts, pos, pkey, akey, plane,
              IF plane.tag = "ok" THEN getAnchor(verts, pos, akey)
              ELSE AnchorSkipped)

\* getPlane, getAnchor and the projection, for the vertices in verts
PlanarizeStep(verts, pos, pkey, akey) ==
    WithAnchor(verts, pos, pkey, akey, getPlane(verts, pos, pkey))

\* the loop of individual mode; it ends at the first step that raises
RECURSIVE IndividualLoop(_, _, _, _, _)
RECURSIVE LoopAfter(_, _, _, _, _, _)
LoopAfter(step, rest, pos, pkey, akey, entries) ==
    IF step.entry.moved
    THEN IndividualLoop(rest, step.pos, pkey, akey, Append(entries, step.entry))
    ELSE [pos |-> pos, log |-> Append(entries, step.entry), raised |-> TRUE]

IndividualLoop(verts, pos, pkey, akey, entries) ==
    IF verts = <<>> THEN [pos |-> pos, log |-> entries, raised |-> FALSE]
    ELSE LoopAfter(PlanarizeStep(<<Head(verts)>>, pos, pkey, akey),
                   Tail(verts), pos, pkey, akey, entries)

Snapshot ==
    [co |-> co, select |-> select, bm |-> bm, plane_source |-> plane_source,
     plane_anchor |-> plane_anchor]

\* mutant: no test for the empty selection; individual mode loops over
\* nothing and finishes, grouped mode raises in getPlane
ExecuteUnguarded ==
    /\ result = "NONE"
    /\ SelectedVerts = <<>>
    /\ plane_source' = Overridden(0, iteration_mode, plane_source)
    /\ plane_anchor' = Overridden(0, iteration_mode, plane_anchor)
    /\ result' = IF iteration_mode = "individual" THEN "FINISHED" ELSE "RAISED"
    /\ pre' = Snapshot
    /\ UNCHANGED <<bm, co, select, normal, cursor_location, matrix_world,
                   iteration_mode, log, reported>>

ExecuteCancelled ==
    /\ result = "NONE"
    /\ SelectedVerts = <<>>
    /\ plane_source' = Overridden(0, iteration_mode, plane_source)
    /\ plane_anchor' = Overridden(0, iteration_mode, plane_anchor)
    /\ reported' = TRUE
    /\ result' = "CANCELLED"
    /\ pre' = Snapshot
    /\ UNCHANGED <<bm, co, select, normal, cursor_location, matrix_world,
                   iteration_mode, log>>

ExecuteGrouped ==
    /\ result = "NONE"
    /\ SelectedVerts # <<>>
    /\ iteration_mode = "grouped"
    /\ plane_source' = Overridden(Len(SelectedVerts), iteration_mode, plane_source)
    /\ plane_anchor' = Overridden(Len(SelectedVerts), iteration_mode, plane_anchor)
    /\ \E step \in {PlanarizeStep(SelectedVerts, co, plane_source', plane_anchor')} :
          /\ co' = step.pos
          /\ log' = <<step.entry>>
          /\ result' = IF step.entry.moved THEN "FINISHED" ELSE "RAISED"
    /\ pre' = Snapshot
    /\ UNCHANGED <<bm, select, normal, cursor_location, matrix_world,
                   iteration_mode, reported>>

ExecuteIndividual ==
    /\ result = "NONE"
    /\ SelectedVerts # <<>>
    /\ iteration_mode = "individual"
    /\ plane_source' = Overridden(Len(SelectedVerts), iteration_mode, plane_source)
    /\ plane_anchor' = Overridden(Len(SelectedVerts), iteration_mode, plane_anchor)
    /\ \E run \in {IndividualLoop(
                      sort_verts_distance_from_point(SelectedVerts,
                          Apply(Inverted(matrix_world), cursor_location), co),
                      co, plane_source', plane_anchor', <<>>)} :
          /\ co' = run.pos
          /\ log' = run.log
          /\ result' = IF run.raised THEN "RAISED" ELSE "FINISHED"
    /\ pre' = Snapshot
    /\ UNCHANGED <<bm, select, normal, cursor_location, matrix_world,
                   iteration_mode, reported>>

\* setCursor: the user places the 3D cursor before invoking the operator
CursorPositions == {<<2 * k, 0, 0, 1>> : k \in 0 .. MaxCursor}

setCursor(coordinates) ==
    /\ result = "NONE"
    /\ cursor_location' = coordinates
    /\ UNCHANGED <<bm, co, select, normal, matrix_world, plane_source,
                   plane_anchor, iteration_mode, result, reported, pre, log>>

\* ----------------------------------------------------------- Init --------
\* the world matrices tried: the identity, and the object moved along x by
\* 2k and scaled by k + 1
WorldMatrix(k) == [scale |-> Rat(k + 1, 1), loc |-> Vec(2 * k, 0, 0, 1)]

\* vertex lift raised by h above the flat base (lift = 0: a flat mesh)
Lifted(m, lift, h) ==
    [v \in Verts |-> Vec(m.base[v][1], m.base[v][2], IF v = lift THEN h ELSE 0, 1)]

\* The 'average' plane of the call is computed exactly
AverageExact ==
    (plane_source = "average" /\ iteration_mode = "grouped"
        /\ Len(SelectedVerts) > 1)
    => LET faces == getFaces(SelectedVerts, TRUE)
       IN  Commensurable([i \in 1 .. Len(faces) |-> normal[faces[i]]])

Init ==
    /\ \E m \in Meshes, h \in 0 .. MaxHeight :
       \E lift \in IF h = 0 THEN {0} ELSE Verts :
          /\ bm = [faces |-> m.faces, edges |-> m.edges]
          /\ co = Lifted(m, lift, h)
          /\ normal = [f \in 1 .. Len(m.faces) |->
                          NewellNormal(m.faces[f], Lifted(m, lift, h))]
    /\ select \in [Verts -> BOOLEAN]
    /\ Cardinality({v \in Verts : select[v]}) <= MaxSelected
    /\ cursor_location = ZeroVec
    /\ \E k \in 0 .. MaxShift : matrix_world = WorldMatrix(k)
    /\ plane_source \in PlaneSources
    /\ plane_anchor \in PlaneAnchors
    /\ iteration_mode \in IterationModes
    /\ AverageExact
    /\ result = "NONE"
    /\ reported = FALSE
    /\ pre = Snapshot
    /\ log = <<>>

Next ==
    \/ \E c \in CursorPositions : setCursor(c)
    \/ ExecuteCancelled
    \/ ExecuteGrouped
    \/ ExecuteIndividual

Spec == Init /\ [][Next]_vars

\* ------------------------------------------------------- the claims ------
Called == result # "NONE"

NumSelected == Len(SelectedVerts)

RatZero == <<0, 1>>

\* the cursor in the mesh's local frame
LocalCursor == Apply(Inverted(matrix_world), cursor_location)

\* C1: execute with no selected vertex reports an error, returns CANCELLED
\* and leaves the position of every vertex as it was, whatever the plane
\* source, the anchor and the iteration mode are.
C1_EmptySelectionCancels ==
    (Called /\ NumSelected = 0)
    => /\ reported
       /\ result = "CANCELLED"
       /\ \A v \in Verts : co[v] = pre.co[v]

C1_Witness ==
    /\ Called
    /\ NumSelected = 0
    /\ result = "CANCELLED"
    /\ pre.plane_source = "average"
    /\ pre.plane_anchor = "cursor"
    /\ iteration_mode = "individual"

\* C2: with exactly one vertex selected the plane is the one the 'connected'
\* plane strategy gives and the anchor the one the 'connected' anchor
\* strategy gives, whatever plane_source and plane_anchor were before.
C2_SingleVertexForcesConnected ==
    (Called /\ NumSelected = 1)
    => /\ Len(log) = 1
       /\ log[1].plane_key = "connected"
       /\ log[1].anchor_key = "connected"
       /\ log[1].plane = getPlaneFromCursorConnected(SelectedVerts, pre.co)
       /\ log[1].plane.tag = "ok"
            => log[1].anchor = getAnchorConnected(SelectedVerts, pre.co)

C2_Witness ==
    /\ Called
    /\ NumSelected = 1
    /\ iteration_mode = "grouped"
    /\ pre.plane_source = "average"
    /\ pre.plane_anchor = "cursor"
    /\ result = "FINISHED"
    /\ co # pre.co

\* the vertex of a quad opposite to its i-th vertex, and its two neighbours
Opposite(fv, i)   == fv[((i + 1) % 4) + 1]
Neighbours(fv, i) == {fv[(i % 4) + 1], fv[((i + 2) % 4) + 1]}

QuadsOf(d) ==
    {<<f, i>> \in (1 .. Len(bm.faces)) \X (1 .. 4) :
        Len(bm.faces[f]) = 4 /\ bm.faces[f][i] = d}

RECURSIVE PosAfter(_)
PosAfter(k) ==
    IF k = 0 THEN pre.co
    ELSE LET p == PosAfter(k - 1)
             e == log[k]
             v == e.verts[1]
         IN  IF e.moved
             THEN [p EXCEPT ![v] = project_vertex_onto_plane(p[v], e.anchor.val,
                                                             e.plane.val)]
             ELSE p

\* squared distance of vertex v from the local cursor, before the call
DistBefore(v) == Length2(VSub(pre.co[v], LocalCursor))

Processed == {log[i].verts[1] : i \in 1 .. Len(log)}

\* C4: in individual mode the selected vertices are moved one at a time in
\* ascending order of their distance from the cursor in local coordinates,
\* measured before any vertex moves; the plane and the anchor of each vertex
\* are computed from that vertex alone, on the positions left by the
\* vertices moved before it.
C4_IndividualOrder ==
    (Called /\ iteration_mode = "individual" /\ NumSelected > 0)
    => /\ \A i \in 1 .. Len(log) :
             Len(log[i].verts) = 1 /\ select[log[i].verts[1]]
       /\ \A i, j \in 1 .. Len(log) :
             i < j => /\ log[i].verts[1] # log[j].verts[1]
                      /\ ~RLess(DistBefore(log[j].verts[1]),
                                DistBefore(log[i].verts[1]))
       /\ \A v \in Verts :
             (select[v] /\ v \notin Processed)
             => /\ result = "RAISED"
                /\ \A u \in Processed : ~RLess(DistBefore(v), DistBefore(u))
       /\ \A i \in 1 .. Len(log) :
             /\ log[i].plane = getPlane(log[i].verts, PosAfter(i - 1), "connected")
             /\ log[i].plane.tag = "ok"
                  => log[i].anchor =
                         getAnchor(log[i].verts, PosAfter(i - 1), "connected")
       /\ co = PosAfter(Len(log))

C4_Witness ==
    /\ Called
    /\ iteration_mode = "individual"
    /\ result = "FINISHED"
    /\ Len(log) = 2
    /\ log[1].verts[1] > log[2].verts[1]
    /\ RLess(DistBefore(log[1].verts[1]), DistBefore(log[2].verts[1]))
    /\ PosAfter(1) # pre.co
    /\ log[2].plane # getPlane(log[2].verts, pre.co, "connected")

\* the first unselected vertex met over the selected vertices, their
\* incident edges and the edges' endpoints, each in order (0: none)
RECURSIVE FirstUnselected(_)
FirstUnselected(vs) ==
    IF vs = <<>> THEN 0
    ELSE IF ~select[Head(vs)] THEN Head(vs) ELSE FirstUnselected(Tail(vs))

RECURSIVE AllEndpoints(_)
AllEndpoints(sel) ==
    IF sel = <<>> THEN <<>>
    ELSE EndpointsOf(link_edges(Head(sel))) \o AllEndpoints(Tail(sel))

GroupedConnectedAnchor ==
    /\ Called
    /\ iteration_mode = "grouped"
    /\ NumSelected >= 2
    /\ pre.plane_anchor = "connected"
    /\ log[1].plane.tag = "ok"

\* C5: in grouped mode with two or more selected vertices and the
\* 'connected' anchor, the anchor is the position of the first unselected
\* vertex adjacent to a selected vertex, in iteration order.
C5_AnchorIsFirstUnselected ==
    (GroupedConnectedAnchor /\ FirstUnselected(AllEndpoints(SelectedVerts)) # 0)
    => /\ log[1].anchor.tag = "ok"
       /\ log[1].anchor.val = pre.co[FirstUnselected(AllEndpoints(SelectedVerts))]

\* C6: in grouped mode with two or more selected vertices and the
\* 'connected' anchor, when no selected vertex has an unselected neighbour
\* the anchor still is a point (the centroid of a face) and execute returns
\* FINISHED.
C6_AnchorFallsBack ==
    (GroupedConnectedAnchor /\ FirstUnselected(AllEndpoints(SelectedVerts)) = 0)
    => /\ log[1].anchor.tag = "ok"
       /\ result = "FINISHED"

\* C7: when getVectFromDiagonal returns None for the vertex and the face in
\* use, the plane is the face's own normal and no caller raises: execute on
\* that single-vertex selection returns FINISHED.
C7_NoneDiagonalNeverRaises ==
    (/\ Called
     /\ NumSelected = 1
     /\ log[1].plane.tag = "ok"
     /\ getVectFromDiagonal(SelectedVerts[1], log[1].plane.face, pre.co).tag = "None")
    => /\ log[1].plane.val = normal[log[1].plane.face]
       /\ result = "FINISHED"

\* C8: every use of the cursor is in local coordinates, so for a single
\* selected vertex the face that gives the anchor is the face that gives
\* the plane, whatever the object's world matrix.
C8_SameFaceForPlaneAndAnchor ==
    (Called /\ NumSelected = 1 /\ log[1].plane.tag = "ok")
    => /\ log[1].plane.face =
              get_face_closest_to_point(getFaces(SelectedVerts, TRUE),
                                        LocalCursor, pre.co)
       /\ log[1].anchor.tag = "ok" => log[1].anchor.face = log[1].plane.face

\* every selected vertex lies on the plane through anchor with normal plane
OnPlane(pos, plane, anchor) ==
    \A v \in Verts :
        select[v] => DirDot(plane, VSub(pos[v], anchor)) = RatZero

\* C9: in grouped mode, when every selected vertex already has
\* dot(normal, position - anchor) = 0 for the plane and anchor of the call,
\* execute leaves every selected vertex where it was; and projecting a
\* projected vertex again on the same plane and anchor returns it unchanged.
C9_ProjectionIdempotent ==
    (Called /\ iteration_mode = "grouped" /\ result = "FINISHED")
    => /\ OnPlane(pre.co, log[1].plane.val, log[1].anchor.val)
            => \A v \in Verts : select[v] => co[v] = pre.co[v]
       /\ \A v \in Verts :
             select[v] => project_vertex_onto_plane(co[v], log[1].anchor.val,
                                                    log[1].plane.val) = co[v]
       /\ OnPlane(co, log[1].plane.val, log[1].anchor.val)

C9_Witness ==
    /\ Called
    /\ iteration_mode = "grouped"
    /\ result = "FINISHED"
    /\ NumSelected >= 2
    /\ log[1].plane.val.dir # <<0, 0, 0>>
    /\ log[1].anchor.val # ZeroVec
    /\ \E v \in Verts : pre.co[v][3] # 0
    /\ OnPlane(pre.co, log[1].plane.val, log[1].anchor.val)

\* C10: after any execute call the position of every unselected vertex, the
\* selected flag of every vertex and the vertices, edges and faces are as
\* before the call; only positions of selected vertices may differ.
C10_FrameOfExecute ==
    Called
    => /\ bm = pre.bm
       /\ select = pre.select
       /\ DOMAIN co = DOMAIN pre.co
       /\ \A v \in Verts : ~select[v] => co[v] = pre.co[v]

C10_Witness ==
    /\ result = "FINISHED"
    /\ \E v \in Verts : select[v] /\ co[v] # pre.co[v]
    /\ \E v \in Verts : ~select[v] /\ co[v][3] # 0

====
